---- MODULE Spec2Model ----
(***************************************************************************)
(* Watermark-correlation latency probe.                                    *)
(*                                                                         *)
(* Receiver  (client/src/lib.rs):        measure_latency,                  *)
(*                                       end_to_end_latency,               *)
(*                                       write_latency_to_csv              *)
(* Emitter   (screen_sharer/src/lib.rs): the capture callback of           *)
(*                                       ScreenSharer::new and             *)
(*                                       handle_room_events                *)
(*                                                                         *)
(* Specifications:                                                         *)
(*   Spec         the Receiver fed with a synthetic inbound frame stream   *)
(*   SpecLive     Spec, with the report written once the loop has ended    *)
(*   SpecWriter   write_latency_to_csv called repeatedly on a ledger       *)
(*   SpecEmitter  the Emitter's two threads, stepping lock by lock         *)
(*   SpecEmitterLive  SpecEmitter with both threads running on             *)
(*   SpecSystem   Receiver, signaling channel, Emitter and a buffered,     *)
(*                lossy frame transport composed                           *)
(*   SpecSharer   stop_capture and the thread of run_capture_frame         *)
(*   SpecSharerLive   SpecSharer with the capture thread running on        *)
(*   SpecCadence  the capture loop while data packets arrive               *)
(*                                                                         *)
(* Time is a bounded wall clock counted in whole seconds; as_millis() of a *)
(* clock reading t is Millis(t).  The clock is assumed not to run          *)
(* backwards.                                                              *)
(***************************************************************************)
EXTENDS Integers, Sequences, FiniteSets, TLC

VARIABLES
    \* ---- Receiver: locals of measure_latency / end_to_end_latency
    frames,               \* total frame counter
    next_frame_request,   \* next frame to send the tick on
    latency_results,      \* the ledger: Vec<LatencyEntry>
    start_time,           \* FPS baseline: clock reading
    last_frame_for_fps,   \* FPS baseline: frame counter
    rpc,                  \* where the Receiver is
    session_start,        \* `now` of end_to_end_latency
    report,               \* the rows written to the output file
    warnings,             \* log::warn! calls of the Receiver
    writes,               \* calls of write_latency_to_csv that returned Ok
    \* ---- environment
    now,                  \* wall clock, seconds
    signal,               \* data packets in flight, Receiver -> Emitter
    transport,            \* frames in flight, Emitter -> Receiver
    \* ---- Emitter
    watermark_count,      \* Arc<Mutex<u32>>: the value
    count_lock,           \* ... and who holds the mutex
    mutexes,              \* who holds capturer, tmp_buffer and video_frame
    cpc,                  \* capture thread: position in the callback
    hpc,                  \* room-event task: position in the handler
    cb_frame,             \* capture thread: the stream buffer being built
    cb_read,              \* capture thread: the budget as it read it
    h_trig,               \* room-event task: id of the packet being handled
    \* ---- Emitter: ScreenSharer and the thread of run_capture_frame
    resolution,           \* main: the --res argument, parsed
    tx,                   \* ScreenSharer.tx: Option<mpsc::Sender>
    rx,                   \* messages sent and not yet received
    stop_result,          \* what stop_capture returned to its caller
    stop_calls,           \* calls of stop_capture so far
    spc,                  \* capture-loop thread: where it is
    cap_frames,           \* `frames` of run_capture_frame
    stats,                \* Vec<Stats>
    stats_file,           \* the encoder stats file
    \* ---- history (not program state)
    triggersSent,         \* publish_data calls that returned Ok
    hist,                 \* per ledger entry: when opened, when and by what matched
    run,                  \* sentinel frames in a row right after the latest trigger
    runFirstTs,           \* receive_timestamp read on the first frame of that run
    lastDetect,           \* the frame just processed held >= 100 sentinel samples
    armedBy,              \* id of the trigger that last reset the budget
    markedSinceReset,     \* frames marked since that reset
    passedSinceReset,     \* a frame passed unmarked since that reset
    wellMarked            \* so far the inbound frames that held the sentinel are
                          \* exactly the WatermarkFrames frames after each trigger

rvars == <<frames, next_frame_request, latency_results, start_time,
           last_frame_for_fps, rpc, session_start, report, warnings, writes>>
evars == <<watermark_count, count_lock, mutexes, cpc, hpc, cb_frame, cb_read, h_trig>>
hvars == <<triggersSent, hist, run, runFirstTs, lastDetect, wellMarked, armedBy,
           markedSinceReset, passedSinceReset>>
svars == <<resolution, tx, rx, stop_result, stop_calls, spc, cap_frames, stats,
           stats_file>>
vars == <<rvars, evars, svars, hvars, now, signal, transport>>

----------------------------------------------------------------------------
\* Program constants

\* Send ticks every frames_offset frames.
frames_offset == 150
\* Limit for accepting the watermark.
min_watermark_count == 100
\* Delay sampling by 500 frames.
start_sampling_frame == 500
\* Number of Y samples the Receiver reads: for i in 0..200
SampleLen == 200
\* The watermark byte, 0xa
Sentinel == 10
\* *count = 15
WatermarkFrames == 15
\* rows the Emitter overwrites: write_bytes(dst, 0xa, 50 * s_y)
MarkRows == 50
\* the Emitter samples its stats every StatsEvery frames: frames % 150 == 0
StatsEvery == 150

----------------------------------------------------------------------------
\* Bounds of the model

\* inbound frames of a session under Spec
MaxFrames == 616
\* last clock reading
MaxClock == 2
\* a synthetic frame may carry the sentinel up to WatermarkFrames + MaxLag
\* frames after the latest trigger
MaxLag == 36
\* luma stride of a frame, in samples
Stride == 8
\* frames the transport holds
MaxInFlight == 1
\* data packets the signaling channel holds
MaxSignal == 2
\* data packets published under SpecEmitter
MaxTriggers == 3
\* inbound frames of a session under SpecSystem
MaxSysFrames == 502
\* passes of the capture loop under SpecSharer
MaxCaptureFrames == 301
\* entries of a ledger handed to the writer under SpecWriter
MaxLedger == 2
\* calls of the writer that return Ok under SpecWriter
MaxWrites == 2
\* calls of stop_capture under SpecSharer
MaxStopCalls == 2

----------------------------------------------------------------------------
\* Values

\* as_millis() of a clock reading
Millis(t) == t * 1000

\* luma value of ordinary picture content
Plain == 128

\* A luma plane is kept as its runs of equal samples, in raster order: a
\* sequence of [v |-> sample value, n |-> run length].  A frame is its luma
\* plane (y) and the trigger whose budget marked it (tag, history: 0 when
\* unmarked).  Luma(k, c, len): k samples of the sentinel value, then
\* content c up to len samples.
Runs(rs) == SelectSeq(rs, LAMBDA r : r.n > 0)

Luma(k, c, len) == Runs(<<[v |-> Sentinel, n |-> k], [v |-> c, n |-> len - k]>>)

Frame(k, c, len, t) == [y |-> Luma(k, c, len), tag |-> t]

\* samples in the luma plane of a frame of the model: the rows the Emitter
\* marks and one row more
FrameLen == (MarkRows + 1) * Stride

\* how many leading sentinel samples a synthetic frame holds
SampleCounts == {0, min_watermark_count - 1, min_watermark_count, SampleLen}

\* Option<LatencyStats>
NoStats == [some |-> FALSE]

\* the answers of track.get_stats(): an error, or the list with the inbound
\* report of the track the frames come from
StatsAnswers == {"err", "inbound"}

\* frames_per_second as the transport reports it
TransportFps == 30

\* get_rtc_stats: the default record, replaced by the inbound report when
\* there is one.  frames_per_second is kept as numerator and denominator.
get_rtc_stats(answer) ==
    IF answer = "inbound"
    THEN [some |-> TRUE, inbound |-> TRUE, frames_per_second |-> <<TransportFps, 1>>]
    ELSE [some |-> TRUE, inbound |-> FALSE, frames_per_second |-> <<0, 1>>]

\* system.process(Pid::from(pid)): None, or a process and its cpu_usage()
NoProcess == [found |-> FALSE, usage |-> 0]

\* process.cpu_usage() of a process that is running
CpuBusy == 50

CpuAnswers == {NoProcess, [found |-> TRUE, usage |-> CpuBusy]}

----------------------------------------------------------------------------
\* Receiver: measure_latency

\* for i in 0..200 { if data_y[i] == 0xa { watermark_count += 1 } }
\* over the runs of the plane: `left` samples are still to be read
RECURSIVE CountSentinel(_, _)
CountSentinel(y, left) ==
    IF left = 0 \/ y = <<>> THEN 0
    ELSE LET take == IF Head(y).n < left THEN Head(y).n ELSE left
         IN  (IF Head(y).v = Sentinel THEN take ELSE 0)
             + CountSentinel(Tail(y), left - take)

SentinelSamples(y) == CountSentinel(y, SampleLen)

\* variant: the limit compared with > instead of >=
DetectedStrict(y, f) ==
    /\ SentinelSamples(y) > min_watermark_count
    /\ f > start_sampling_frame

\* variant: no warm-up
DetectedNoWarmUp(y, f) == SentinelSamples(y) >= min_watermark_count

\* watermark_count >= min_watermark_count && frames > start_sampling_frame
Detected(y, f) ==
    /\ SentinelSamples(y) >= min_watermark_count
    /\ f > start_sampling_frame

\* variant: the oldest entry still pending, 0 if none
RECURSIVE OldestPending(_)
OldestPending(ledger) ==
    IF ledger = <<>> THEN 0
    ELSE IF Head(ledger).receive_timestamp = 0 THEN 1
    ELSE IF OldestPending(Tail(ledger)) = 0 THEN 0
    ELSE 1 + OldestPending(Tail(ledger))

\* latency_results.last_mut(): index of the entry a detection may close, 0 if none
MatchIndex(ledger) == Len(ledger)

\* variant: the receive timestamp is not looked at
AlwaysEligible(entry) == TRUE

\* If the entry has a receive timestamp don't overwrite it.
Eligible(entry) == entry.receive_timestamp = 0

\* variant: no tick while the newest entry is pending
TriggerWhenIdle(f, nfr, ledger) ==
    /\ f = nfr
    /\ ledger = <<>> \/ ledger[Len(ledger)].receive_timestamp /= 0

\* if frames == next_frame_request
TriggerDue(f, nfr, ledger) == f = nfr

\* variant: the id taken before next_frame_request is advanced
EntryIdBefore(nfr) == nfr \div frames_offset

\* id: next_frame_request / frames_offset, evaluated after
\* next_frame_request += frames_offset
EntryId(nfr) == (nfr + frames_offset) \div frames_offset

\* variant: the entry is closed by the frame that opens it
NewEntryClosed(nfr, t) ==
    [id |-> EntryId(nfr), timestamp |-> Millis(t), receive_timestamp |-> Millis(t),
     rtc_stats |-> NoStats, cpu_usage |-> 0]

\* the entry latency_results.push is given: LatencyEntry { ... }
NewEntry(nfr, t) ==
    [id |-> EntryId(nfr), timestamp |-> Millis(t), receive_timestamp |-> 0,
     rtc_stats |-> NoStats, cpu_usage |-> 0]

\* variant: the entry put in front
PushFront(ledger, entry) == <<entry>> \o ledger

\* latency_results.push(entry)
Push(ledger, entry) == Append(ledger, entry)

\* variant: the rate over the whole session
FpsSinceStart(f, last, t, start) == <<f, t - start>>

\* (frames - last_frame_for_fps) as f64 / elapsed_time_since_start as f64:
\* the quotient kept as <<frames, whole seconds>>, the seconds may be 0
LocalFps(f, last, t, start) == <<f - last, t - start>>

\* variant: without the process the entry is left as it was
MatchedIfProcess(entry, t0, answer, cpu, fps) ==
    IF cpu.found
    THEN [entry EXCEPT !.receive_timestamp = Millis(t0),
                       !.rtc_stats = [get_rtc_stats(answer) EXCEPT !.frames_per_second = fps],
                       !.cpu_usage = cpu.usage]
    ELSE entry

\* variant: the match also stamps the entry's timestamp
MatchedRestamped(entry, t0, answer, cpu, fps) ==
    [entry EXCEPT !.timestamp = Millis(t0),
                  !.receive_timestamp = Millis(t0),
                  !.rtc_stats = [get_rtc_stats(answer) EXCEPT !.frames_per_second = fps],
                  !.cpu_usage = IF cpu.found THEN cpu.usage ELSE @]

\* the entry after a match whose stats query answered
Matched(entry, t0, answer, cpu, fps) ==
    [entry EXCEPT !.receive_timestamp = Millis(t0),
                  !.rtc_stats = [get_rtc_stats(answer) EXCEPT !.frames_per_second = fps],
                  !.cpu_usage = IF cpu.found THEN cpu.usage ELSE @]

\* frames since the latest trigger, as seen before frame `frames` is processed
SinceTrigger == frames - (next_frame_request - frames_offset)

\* frame `frames` is one of the WatermarkFrames frames that follow a trigger
MarkedSlot == next_frame_request > 0 /\ SinceTrigger \in 1..WatermarkFrames

\* One pass of the while-let body on frame `fr`.
\*   d0, d1, d2  seconds that pass while waiting for the frame, during the
\*               stats and CPU queries, and during publish_data
\*   answer      what get_stats() answers
\*   cpu         what system.process(pid) gives: Some(process) or None
\*   pubOk       whether publish_data returns Ok
ReceiveFrame(fr, d0, d1, d2, answer, cpu, pubOk) ==
    LET t0 == now + d0
        det == Detected(fr.y, frames)
        mi == MatchIndex(latency_results)
        match == det /\ mi > 0 /\ Eligible(latency_results[mi])
        statsPanic == match /\ answer = "err"
        t1 == IF match THEN t0 + d1 ELSE t0
        fps == LocalFps(frames, last_frame_for_fps, t1, start_time)
        \* ledger after the detection block
        l1 == IF ~match THEN latency_results
              ELSE IF statsPanic
              THEN [latency_results EXCEPT ![mi].receive_timestamp = Millis(t0)]
              ELSE [latency_results EXCEPT ![mi] = Matched(@, t0, answer, cpu, fps)]
        h1 == IF ~match THEN hist
              ELSE [hist EXCEPT ![mi].matchedAt = frames,
                                ![mi].matchedBy = fr.tag,
                                ![mi].matches = @ + 1]
        due == ~statsPanic /\ TriggerDue(frames, next_frame_request, l1)
        t2 == IF due THEN t1 + d2 ELSE t1
        sentinel == SentinelSamples(fr.y) >= min_watermark_count
    IN  /\ rpc = "running"
        /\ t2 <= MaxClock
        /\ now' = t2
        /\ lastDetect' = sentinel
        /\ wellMarked' = (wellMarked /\ (sentinel <=> MarkedSlot))
        /\ warnings' = IF match /\ ~statsPanic /\ ~cpu.found
                       THEN warnings + 1 ELSE warnings
        /\ IF match /\ ~statsPanic
           THEN start_time' = t1 /\ last_frame_for_fps' = frames
           ELSE UNCHANGED <<start_time, last_frame_for_fps>>
        /\ IF statsPanic
           THEN \* track.get_stats().await.unwrap() panics
                /\ rpc' = "panicked"
                /\ latency_results' = l1
                /\ hist' = h1
                /\ UNCHANGED <<frames, next_frame_request, signal, triggersSent,
                               run, runFirstTs>>
           ELSE IF due /\ ~pubOk
           THEN \* publish_data(...).await.unwrap() panics
                /\ rpc' = "panicked"
                /\ next_frame_request' = next_frame_request + frames_offset
                /\ latency_results' = l1
                /\ hist' = h1
                /\ UNCHANGED <<frames, signal, triggersSent, run, runFirstTs>>
           ELSE IF due
           THEN /\ next_frame_request' = next_frame_request + frames_offset
                /\ signal' = Append(signal, [payload |-> "watermark",
                                             id |-> EntryId(next_frame_request)])
                /\ triggersSent' = triggersSent + 1
                /\ latency_results' = Push(l1, NewEntry(next_frame_request, t2))
                /\ hist' = Append(h1, [openedAt |-> frames, matchedAt |-> -1,
                                       matchedBy |-> 0, matches |-> 0])
                /\ run' = 0
                /\ runFirstTs' = 0
                /\ frames' = frames + 1
                /\ rpc' = rpc
           ELSE /\ latency_results' = l1
                /\ hist' = h1
                /\ run' = IF run < 0 \/ run = WatermarkFrames \/ Len(hist) = 0 THEN run
                          ELSE IF sentinel THEN run + 1 ELSE -1
                /\ runFirstTs' = IF run = 0 /\ sentinel /\ Len(hist) > 0
                                 THEN Millis(t0) ELSE runFirstTs
                /\ frames' = frames + 1
                /\ UNCHANGED <<next_frame_request, signal, triggersSent, rpc>>
        /\ UNCHANGED <<session_start, report, writes>>

\* whether frame `fr`, arriving now, closes an entry
WouldMatch(fr) ==
    /\ Detected(fr.y, frames)
    /\ MatchIndex(latency_results) > 0
    /\ Eligible(latency_results[MatchIndex(latency_results)])

\* the inputs a pass reads: the stats and CPU answers only on a match, the
\* publish result only when the tick is due
MatchInputs(fr) ==
    IF WouldMatch(fr)
    THEN {[d1 |-> d, answer |-> a, cpu |-> c] :
             d \in 0..1, a \in StatsAnswers, c \in CpuAnswers}
    ELSE {[d1 |-> 0, answer |-> "inbound", cpu |-> NoProcess]}

TickInputs ==
    IF TriggerDue(frames, next_frame_request, latency_results)
    THEN {[d2 |-> d, pubOk |-> p] : d \in 0..1, p \in BOOLEAN}
    ELSE {[d2 |-> 0, pubOk |-> TRUE]}

\* where a synthetic stream may carry the sentinel
SentinelAllowed ==
    \/ frames = next_frame_request
    \/ next_frame_request > 0 /\ SinceTrigger <= WatermarkFrames + MaxLag

\* video_sink.next() yields a frame of a synthetic stream
SyntheticFrame ==
    /\ frames < MaxFrames
    /\ rpc = "running"
    /\ \E k \in SampleCounts, d0 \in 0..1 :
          /\ k >= min_watermark_count => SentinelAllowed
          /\ \E m \in MatchInputs(Frame(k, Plain, FrameLen, 0)), t \in TickInputs :
                ReceiveFrame(Frame(k, Plain, FrameLen, 0), d0, m.d1, t.d2,
                             m.answer, m.cpu, t.pubOk)
    /\ UNCHANGED transport
    /\ UNCHANGED <<evars, armedBy, markedSinceReset, passedSinceReset>>
    /\ UNCHANGED svars

\* the while-let ends: the stream is over or no frame came within 10 s
SessionEnd ==
    /\ rpc = "running"
    /\ rpc' = "ended"
    /\ UNCHANGED <<frames, next_frame_request, latency_results, start_time,
                   last_frame_for_fps, session_start, report, warnings, writes,
                   evars, hvars, now, signal, transport>>
    /\ UNCHANGED svars

----------------------------------------------------------------------------
\* Receiver: write_latency_to_csv

\* if entry.receive_timestamp == 0 || entry.rtc_stats.is_none() { continue; }
Reported(entry) == entry.receive_timestamp /= 0 /\ entry.rtc_stats.some

\* variant: the operands of the latency swapped
RowSwapped(entry, duration) ==
    [id |-> entry.id,
     latency |-> entry.timestamp - entry.receive_timestamp,
     inbound |-> entry.rtc_stats.inbound,
     frames_per_second |-> entry.rtc_stats.frames_per_second,
     duration |-> duration,
     cpu_usage |-> entry.cpu_usage]

\* one data row
Row(entry, duration) ==
    [id |-> entry.id,
     latency |-> entry.receive_timestamp - entry.timestamp,
     inbound |-> entry.rtc_stats.inbound,
     frames_per_second |-> entry.rtc_stats.frames_per_second,
     duration |-> duration,
     cpu_usage |-> entry.cpu_usage]

\* variant: the loop leaves at the first entry it does not report
RECURSIVE RowsUntilSkipped(_, _)
RowsUntilSkipped(ledger, duration) ==
    IF ledger = <<>> THEN <<>>
    ELSE IF Reported(Head(ledger))
    THEN <<Row(Head(ledger), duration)>> \o RowsUntilSkipped(Tail(ledger), duration)
    ELSE <<>>

\* for entry in latency { ... writeln!(...) }
RECURSIVE Rows(_, _)
Rows(ledger, duration) ==
    IF ledger = <<>> THEN <<>>
    ELSE IF Reported(Head(ledger))
    THEN <<Row(Head(ledger), duration)>> \o Rows(Tail(ledger), duration)
    ELSE Rows(Tail(ledger), duration)

\* the outcomes of the file operations
IoOutcomes == {"ok", "create fails", "write fails"}

\* variant: the file is also written while the frame loop runs
ReportAnytime(pc) == pc \in {"running", "ended"}

\* write_latency_to_csv is called once `measure_latency(...).await` has returned
ReportDue(pc) == pc = "ended"

\* variant: the file opened for appending, what it holds is kept
FileOpenAppend(file) == [file EXCEPT !.created = TRUE]

\* File::create(output_file): the file exists and is empty, whatever it held
FileCreate(file) == [created |-> TRUE, header |-> FALSE, rows |-> <<>>]

\* write_latency_to_csv: the file after the call.  When File::create fails
\* the file is as it was; a write that fails is the first one, the header's.
write_latency_to_csv(file, latency, duration, io) ==
    IF io = "create fails" THEN file
    ELSE IF io = "write fails" THEN FileCreate(file)
    ELSE [FileCreate(file) EXCEPT !.header = TRUE,
                                  !.rows = @ \o Rows(latency, duration)]

\* one call of write_latency_to_csv with the ledger and `end - now`
Serialize ==
    /\ \E io \in IoOutcomes :
          /\ rpc' = IF io = "ok" THEN "reported" ELSE "write_error"
          /\ writes' = IF io = "ok" THEN writes + 1 ELSE writes
          /\ report' = write_latency_to_csv(report, latency_results,
                                            now - session_start, io)
    /\ UNCHANGED <<frames, next_frame_request, latency_results, start_time,
                   last_frame_for_fps, session_start, warnings,
                   evars, hvars, now, signal, transport>>
    /\ UNCHANGED svars

\* end_to_end_latency after measure_latency returned: the duration, then the file
WriteReport ==
    /\ ReportDue(rpc)
    /\ Serialize

\* the writer called on its own, again and again, on the same ledger
Reserialize ==
    /\ rpc \in {"ended", "reported", "write_error"}
    /\ writes < MaxWrites
    /\ Serialize

----------------------------------------------------------------------------
\* Emitter: the capture callback of ScreenSharer::new and handle_room_events

\* what the screen shows: the luma value the captured frame is filled with
Contents == {Plain}

\* the data packets a participant may publish
Payloads == {"watermark", "other"}

\* capturer, tmp_buffer and video_frame with nobody holding them
AllFree == [capturer |-> "free", tmp_buffer |-> "free", video_frame |-> "free"]

\* variant: a lock that excludes nobody
NoExclusion(holder) == TRUE

\* Mutex::lock() returns once nobody holds the mutex
CanLock(holder) == holder = "free"

\* variant: the guard is never dropped
UnlockLeaked(holder) == holder

\* a MutexGuard goes out of scope
Unlock(holder) == "free"

\* variant: the reset adds to what is left
OnTriggerAdd(budget) == budget + WatermarkFrames

\* *count = 15
OnTrigger(budget) == WatermarkFrames

\* *watermark_count -= 1 on a u32: below 0 the subtraction overflows (a panic,
\* or 2^32 - 1 in a build without overflow checks); -1 stands for that
BudgetAfterFrame(budget) == budget - 1

\* the plane without its first n samples
RECURSIVE DropSamples(_, _)
DropSamples(y, n) ==
    IF n = 0 \/ y = <<>> THEN y
    ELSE IF Head(y).n <= n THEN DropSamples(Tail(y), n - Head(y).n)
    ELSE <<[v |-> Head(y).v, n |-> Head(y).n - n]>> \o Tail(y)

\* variant: one row written instead of 50
WriteOneRow(y, s_y) == <<[v |-> Sentinel, n |-> s_y]>> \o DropSamples(y, s_y)

\* std::ptr::write_bytes(dst, 0xa, (50 * s_y) as usize)
WriteSentinel(y, s_y) ==
    <<[v |-> Sentinel, n |-> MarkRows * s_y]>> \o DropSamples(y, MarkRows * s_y)

\* the Timeout arm: let mut capturer = capturer.lock().unwrap(); then
\* capturer.capture_frame() calls the callback
CapLock ==
    /\ cpc = "idle"
    /\ CanLock(mutexes.capturer)
    /\ mutexes' = [mutexes EXCEPT !.capturer = "capture"]
    /\ cpc' = "called"
    /\ UNCHANGED <<watermark_count, count_lock, hpc, cb_frame, cb_read, h_trig,
                   rvars, hvars, now, signal, transport>>
    /\ UNCHANGED svars

\* the callback is called with Err: it logs and returns
CaptureError ==
    /\ cpc = "called"
    /\ cpc' = "returned"
    /\ UNCHANGED <<watermark_count, count_lock, mutexes, hpc, cb_frame, cb_read, h_trig,
                   rvars, hvars, now, signal, transport>>
    /\ UNCHANGED svars

\* let mut buffer = tmp_buffer.lock().unwrap(); argb_to_nv12 into it
CbConvert ==
    /\ cpc = "called"
    /\ CanLock(mutexes.tmp_buffer)
    /\ mutexes' = [mutexes EXCEPT !.tmp_buffer = "capture"]
    /\ cpc' = "converted"
    /\ UNCHANGED <<watermark_count, count_lock, hpc, cb_frame, cb_read, h_trig,
                   rvars, hvars, now, signal, transport>>
    /\ UNCHANGED svars

\* let mut stream_buffer = video_frame.lock().unwrap(); up to
\* dst_uv.copy_from_slice: the captured picture, converted and scaled, is in
\* the stream buffer
CbCopy ==
    /\ cpc = "converted"
    /\ CanLock(mutexes.video_frame)
    /\ mutexes' = [mutexes EXCEPT !.video_frame = "capture"]
    /\ \E c \in Contents : cb_frame' = Frame(0, c, FrameLen, 0)
    /\ cpc' = "copied"
    /\ UNCHANGED <<watermark_count, count_lock, hpc, cb_read, h_trig,
                   rvars, hvars, now, signal, transport>>
    /\ UNCHANGED svars

\* let mut watermark_count = watermark_count_clone.lock().unwrap();
CbLock ==
    /\ cpc = "copied"
    /\ CanLock(count_lock)
    /\ count_lock' = "capture"
    /\ cpc' = "locked"
    /\ UNCHANGED <<watermark_count, hpc, cb_frame, cb_read, h_trig,
                   rvars, hvars, now, signal, transport>>
    /\ UNCHANGED mutexes
    /\ UNCHANGED svars

\* if *watermark_count > 0
CbTest ==
    /\ cpc = "locked"
    /\ cb_read' = watermark_count
    /\ cpc' = IF watermark_count > 0 THEN "marking" ELSE "unlock"
    /\ passedSinceReset' = (passedSinceReset \/ watermark_count = 0)
    /\ UNCHANGED <<watermark_count, count_lock, hpc, cb_frame, h_trig, rvars,
                   triggersSent, hist, run, runFirstTs, lastDetect, wellMarked, armedBy,
                   markedSinceReset, now, signal, transport>>
    /\ UNCHANGED mutexes
    /\ UNCHANGED svars

\* *watermark_count -= 1; write_bytes(...)
CbMark ==
    /\ cpc = "marking"
    /\ watermark_count' = BudgetAfterFrame(cb_read)
    /\ cb_frame' = [y |-> WriteSentinel(cb_frame.y, Stride), tag |-> armedBy]
    /\ markedSinceReset' = markedSinceReset + 1
    /\ cpc' = "unlock"
    /\ UNCHANGED <<count_lock, hpc, cb_read, h_trig, rvars,
                   triggersSent, hist, run, runFirstTs, lastDetect, wellMarked, armedBy,
                   passedSinceReset, now, signal, transport>>
    /\ UNCHANGED mutexes
    /\ UNCHANGED svars

\* the guard goes out of scope
CbUnlock ==
    /\ cpc = "unlock"
    /\ count_lock' = Unlock(count_lock)
    /\ cpc' = "deliver"
    /\ UNCHANGED <<watermark_count, hpc, cb_frame, cb_read, h_trig,
                   rvars, hvars, now, signal, transport>>
    /\ UNCHANGED mutexes
    /\ UNCHANGED svars

\* what the frame transport holds after the video source was given frame fr:
\* a full transport loses it
Handed(fr) == IF Len(transport) < MaxInFlight THEN Append(transport, fr) ELSE transport

\* buffer_source_clone.capture_frame(&stream_buffer); the callback returns
\* and the guards of video_frame and tmp_buffer go out of scope
CbDeliver ==
    /\ cpc = "deliver"
    /\ transport' = Handed(cb_frame)
    /\ mutexes' = [mutexes EXCEPT !.video_frame = Unlock(@), !.tmp_buffer = Unlock(@)]
    /\ cpc' = "returned"
    /\ UNCHANGED <<watermark_count, count_lock, hpc, cb_frame, cb_read, h_trig,
                   rvars, hvars, now, signal>>
    /\ UNCHANGED svars

\* the Timeout arm ends: the guard of capturer goes out of scope
CapUnlock ==
    /\ cpc = "returned"
    /\ mutexes' = [mutexes EXCEPT !.capturer = Unlock(@)]
    /\ cpc' = "idle"
    /\ UNCHANGED <<watermark_count, count_lock, hpc, cb_frame, cb_read, h_trig,
                   rvars, hvars, now, signal, transport>>
    /\ UNCHANGED svars

\* rx.recv().await yields an event; only DataReceived "watermark" goes on
HRecv ==
    /\ hpc = "recv"
    /\ signal /= <<>>
    /\ signal' = Tail(signal)
    /\ h_trig' = Head(signal).id
    /\ hpc' = IF Head(signal).payload = "watermark" THEN "lock" ELSE "recv"
    /\ UNCHANGED <<watermark_count, count_lock, cpc, cb_frame, cb_read,
                   rvars, hvars, now, transport>>
    /\ UNCHANGED mutexes
    /\ UNCHANGED svars

\* let mut count = watermark_count.lock().unwrap();
HLock ==
    /\ hpc = "lock"
    /\ CanLock(count_lock)
    /\ count_lock' = "handler"
    /\ hpc' = "set"
    /\ UNCHANGED <<watermark_count, cpc, cb_frame, cb_read, h_trig,
                   rvars, hvars, now, signal, transport>>
    /\ UNCHANGED mutexes
    /\ UNCHANGED svars

\* *count = 15;
HSet ==
    /\ hpc = "set"
    /\ watermark_count' = OnTrigger(watermark_count)
    /\ armedBy' = h_trig
    /\ markedSinceReset' = 0
    /\ passedSinceReset' = FALSE
    /\ hpc' = "unlock"
    /\ UNCHANGED <<count_lock, cpc, cb_frame, cb_read, h_trig, rvars,
                   triggersSent, hist, run, runFirstTs, lastDetect, wellMarked,
                   now, signal, transport>>
    /\ UNCHANGED mutexes
    /\ UNCHANGED svars

\* the guard goes out of scope
HUnlock ==
    /\ hpc = "unlock"
    /\ count_lock' = Unlock(count_lock)
    /\ hpc' = "recv"
    /\ UNCHANGED <<watermark_count, cpc, cb_frame, cb_read, h_trig,
                   rvars, hvars, now, signal, transport>>
    /\ UNCHANGED mutexes
    /\ UNCHANGED svars

\* a participant publishes a data packet (SpecEmitter's environment)
DataPublished ==
    /\ Len(signal) < MaxSignal
    /\ triggersSent < MaxTriggers
    /\ \E p \in Payloads :
          signal' = Append(signal, [payload |-> p, id |-> triggersSent + 1])
    /\ triggersSent' = triggersSent + 1
    /\ UNCHANGED <<evars, rvars, hist, run, runFirstTs, lastDetect, wellMarked, armedBy,
                   markedSinceReset, passedSinceReset, now, transport>>
    /\ UNCHANGED svars

\* the transport takes the oldest frame and loses it
FrameLost ==
    /\ transport /= <<>>
    /\ transport' = Tail(transport)
    /\ UNCHANGED <<evars, rvars, hvars, now, signal>>
    /\ UNCHANGED svars

----------------------------------------------------------------------------
\* The composed system.  The Emitter's callback and handler each run as one
\* step: the mutex makes the budget's test-and-decrement and its reset
\* exclude each other, which SpecEmitter checks lock by lock.

\* the capture callback, start to end
Callback ==
    /\ cpc = "idle" /\ hpc = "recv"
    /\ \E c \in Contents :
          LET fr == IF watermark_count > 0
                    THEN [y |-> WriteSentinel(Frame(0, c, FrameLen, 0).y, Stride),
                          tag |-> armedBy]
                    ELSE Frame(0, c, FrameLen, 0)
          IN  /\ cb_frame' = fr
              /\ transport' = Handed(fr)
    /\ cb_read' = watermark_count
    /\ watermark_count' = IF watermark_count > 0
                          THEN BudgetAfterFrame(watermark_count)
                          ELSE watermark_count
    /\ markedSinceReset' = IF watermark_count > 0
                           THEN markedSinceReset + 1 ELSE markedSinceReset
    /\ passedSinceReset' = (passedSinceReset \/ watermark_count = 0)
    /\ UNCHANGED <<count_lock, cpc, hpc, h_trig, rvars, triggersSent, hist, run,
                   runFirstTs, lastDetect, wellMarked, armedBy, now, signal>>
    /\ UNCHANGED mutexes

\* the callback runs, whoever called the capturer
EmitterFrame ==
    /\ Callback
    /\ UNCHANGED svars

\* the room-event handler on one event, start to end
EmitterTrigger ==
    /\ cpc = "idle" /\ hpc = "recv"
    /\ signal /= <<>>
    /\ signal' = Tail(signal)
    /\ h_trig' = Head(signal).id
    /\ IF Head(signal).payload = "watermark"
       THEN /\ watermark_count' = OnTrigger(watermark_count)
            /\ armedBy' = Head(signal).id
            /\ markedSinceReset' = 0
            /\ passedSinceReset' = FALSE
       ELSE UNCHANGED <<watermark_count, armedBy, markedSinceReset,
                        passedSinceReset>>
    /\ UNCHANGED <<count_lock, cpc, hpc, cb_frame, cb_read, rvars, triggersSent,
                   hist, run, runFirstTs, lastDetect, wellMarked, now, transport>>
    /\ UNCHANGED mutexes
    /\ UNCHANGED svars

\* video_sink.next() yields the oldest frame in the transport
DeliverFrame ==
    /\ frames < MaxSysFrames
    /\ rpc = "running"
    /\ transport /= <<>>
    /\ frames = next_frame_request => Len(signal) < MaxSignal
    /\ \E d0 \in 0..1 :
          \E m \in MatchInputs(Head(transport)), t \in TickInputs :
             ReceiveFrame(Head(transport), d0, m.d1, t.d2, m.answer, m.cpu, t.pubOk)
    /\ transport' = Tail(transport)
    /\ UNCHANGED <<evars, armedBy, markedSinceReset, passedSinceReset>>
    /\ UNCHANGED svars

----------------------------------------------------------------------------
\* Emitter: ScreenSharer::stop_capture and the thread of run_capture_frame

\* the encoder stats file before anything is written
NoFile == [name |-> "", created |-> FALSE, header |-> FALSE, rows |-> <<>>]

\* enum Resolution
Resolutions == {"HD1080", "QHD1440", "HD720", "UHD2160"}

\* the --res argument each one is parsed from (FromStr for Resolution)
ResolutionName(res) ==
    CASE res = "HD1080" -> "1080p"
      [] res = "QHD1440" -> "1440p"
      [] res = "HD720" -> "720p"
      [] res = "UHD2160" -> "4K"

\* default_value("1080p")
DefaultResolution == "HD1080"

\* Resolution::dimensions: (width, height)
dimensions(res) ==
    CASE res = "HD1080" -> <<1920, 1080>>
      [] res = "QHD1440" -> <<2560, 1440>>
      [] res = "HD720" -> <<1280, 720>>
      [] res = "UHD2160" -> <<4096, 2160>>

\* format!("{}p", if height == 1080 { "1080" } else if height == 1440
\* { "1440" } else { "720" })
ResolutionLabel(height) ==
    (IF height = 1080 THEN "1080" ELSE IF height = 1440 THEN "1440" ELSE "720") \o "p"

\* format!("{:?}", codec) of the default codec
DefaultCodec == "VP9"

\* --bitrate, default
DefaultBitrate == 4000

\* --name, default
DefaultName == "test"

\* "{}" of a u64
RECURSIVE Decimal(_)
Decimal(n) ==
    LET Digit(d) == CASE d = 0 -> "0" [] d = 1 -> "1" [] d = 2 -> "2" [] d = 3 -> "3"
                      [] d = 4 -> "4" [] d = 5 -> "5" [] d = 6 -> "6" [] d = 7 -> "7"
                      [] d = 8 -> "8" [] d = 9 -> "9"
    IN  IF n < 10 THEN Digit(n) ELSE Decimal(n \div 10) \o Digit(n % 10)

\* format!("{}_{}_{}_{}.csv", encoder, resolution, bitrate, name)
FileName(encoder, label, bitrate, name) ==
    encoder \o "_" \o label \o "_" \o Decimal(bitrate) \o "_" \o name \o ".csv"

\* the answers of get_stats() of the local video track
SenderStatsAnswers == {"err", "sent"}

\* stats.candidate_pair.bytes_sent
BytesSent == 1000

\* get_rtc_stats of the screen sharer, when get_stats() answered
sharer_rtc_stats(cpu_usage) == [bytes_sent |-> BytesSent, cpu_usage |-> cpu_usage]

\* variant: no sample while frames are being marked
StatsDueUnmarked(f) == f % StatsEvery = 0 /\ watermark_count = 0

\* if frames % 150 == 0
StatsDue(f) == f % StatsEvery = 0

\* for (i, stat) in stats.iter().enumerate(): one line per sample
StatsRows(st) ==
    [i \in 1..Len(st) |->
        [frame |-> i - 1, cpu_usage |-> st[i].cpu_usage, bytes_sent |-> st[i].bytes_sent]]

\* self.tx.take() leaves None
TakeSender(t) == "none"

\* the message main has stop_capture send
StopMessage ==
    [encoder |-> DefaultCodec,
     resolution |-> ResolutionLabel(dimensions(resolution)[2]),
     bitrate |-> DefaultBitrate,
     name |-> DefaultName]

\* ScreenSharer::stop_capture: takes the sender, sends StopCapture and drops
\* the result of the send (the send fails once the thread is gone); returns ()
StopCapture ==
    /\ stop_calls < MaxStopCalls
    /\ tx /= "dropped"
    /\ stop_calls' = stop_calls + 1
    /\ stop_result' = "unit"
    /\ IF tx = "some"
       THEN /\ tx' = TakeSender(tx)
            /\ rx' = IF spc \in {"capturing", "ticking"} THEN Append(rx, StopMessage)
                     ELSE rx
       ELSE UNCHANGED <<tx, rx>>
    /\ UNCHANGED <<resolution, spc, cap_frames, stats, stats_file>>
    /\ UNCHANGED <<rvars, evars, hvars, now, signal, transport>>

\* the ScreenSharer is dropped with its sender
SharerDropped ==
    /\ tx = "some"
    /\ tx' = "dropped"
    /\ UNCHANGED <<resolution, rx, stop_result, stop_calls, spc, cap_frames, stats,
                   stats_file>>
    /\ UNCHANGED <<rvars, evars, hvars, now, signal, transport>>

\* recv_timeout(16 ms) gives Err(Timeout): nothing in the channel, and the
\* sender is alive
RecvTimeout ==
    /\ spc = "capturing"
    /\ rx = <<>> /\ tx = "some"
    /\ cap_frames < MaxCaptureFrames
    /\ spc' = "ticking"
    /\ UNCHANGED <<resolution, tx, rx, stop_result, stop_calls, cap_frames, stats,
                   stats_file>>
    /\ UNCHANGED <<rvars, evars, hvars, now, signal, transport>>

\* the Timeout arm: one pass of the capture loop, while the main thread may
\* call stop_capture.  The capturer calls the callback, with a frame or with
\* an error.
CaptureTick ==
    /\ spc = "ticking"
    /\ \/ Callback
       \/ cpc = "idle" /\ UNCHANGED <<rvars, evars, hvars, now, signal, transport>>
    /\ cap_frames' = cap_frames + 1
    /\ IF StatsDue(cap_frames + 1)
       THEN \E cpu \in CpuAnswers, answer \in SenderStatsAnswers :
               IF answer = "err"
               THEN \* track.get_stats().await.unwrap() panics
                    spc' = "panicked" /\ stats' = stats
               ELSE /\ stats' = Append(stats, sharer_rtc_stats(cpu.usage))
                    /\ spc' = "capturing"
       ELSE spc' = "capturing" /\ stats' = stats
    /\ UNCHANGED <<resolution, tx, rx, stop_result, stop_calls, stats_file>>

\* recv_timeout gives the StopCapture message: the stats file, then break
RecvStop ==
    /\ spc = "capturing"
    /\ rx /= <<>>
    /\ rx' = Tail(rx)
    /\ spc' = "stopped"
    /\ \E io \in IoOutcomes :
          LET filename == FileName(Head(rx).encoder, Head(rx).resolution,
                                   Head(rx).bitrate, Head(rx).name)
          IN  stats_file' =
                 IF io = "ok"
                 THEN [name |-> filename, created |-> TRUE, header |-> TRUE,
                       rows |-> StatsRows(stats)]
                 ELSE IF io = "create fails"
                 THEN NoFile
                 ELSE [name |-> filename, created |-> TRUE, header |-> FALSE,
                       rows |-> <<>>]
    /\ UNCHANGED <<resolution, tx, stop_result, stop_calls, cap_frames, stats>>
    /\ UNCHANGED <<rvars, evars, hvars, now, signal, transport>>

\* recv_timeout gives Err(Disconnected): break
RecvDisconnected ==
    /\ spc = "capturing"
    /\ rx = <<>> /\ tx = "dropped"
    /\ spc' = "disconnected"
    /\ UNCHANGED <<resolution, tx, rx, stop_result, stop_calls, cap_frames, stats,
                   stats_file>>
    /\ UNCHANGED <<rvars, evars, hvars, now, signal, transport>>

----------------------------------------------------------------------------
\* Initial state and the specifications

NoFrame == Frame(0, Plain, FrameLen, 0)

\* all but the ledger, the clock, the Receiver's position and the Emitter's
\* resolution
InitOther ==
    /\ frames = 0
    /\ next_frame_request = 0
    /\ start_time = 1
    /\ last_frame_for_fps = 0
    /\ session_start = 1
    /\ writes = 0
    /\ report = [created |-> FALSE, header |-> FALSE, rows |-> <<>>]
    /\ warnings = 0
    /\ signal = <<>>
    /\ transport = <<>>
    /\ watermark_count = 0
    /\ count_lock = "free"
    /\ mutexes = AllFree
    /\ cpc = "idle"
    /\ hpc = "recv"
    /\ cb_frame = NoFrame
    /\ cb_read = 0
    /\ h_trig = 0
    /\ triggersSent = 0
    /\ hist = <<>>
    /\ run = -1
    /\ runFirstTs = 0
    /\ lastDetect = FALSE
    /\ armedBy = 0
    /\ markedSinceReset = 0
    /\ passedSinceReset = FALSE
    /\ wellMarked = TRUE
    /\ tx = "some"
    /\ rx = <<>>
    /\ stop_result = "none"
    /\ stop_calls = 0
    /\ spc = "capturing"
    /\ cap_frames = 0
    /\ stats = <<>>
    /\ stats_file = NoFile

Init ==
    /\ InitOther
    /\ latency_results = <<>>
    /\ now = 1
    /\ rpc = "running"
    /\ resolution = DefaultResolution

\* the screen sharer started with any of the accepted --res arguments
InitSharer ==
    /\ InitOther
    /\ latency_results = <<>>
    /\ now = 1
    /\ rpc = "running"
    /\ resolution \in Resolutions

\* the entries a ledger handed to the writer is made of: pending or matched,
\* with or without stats
EntryShapes ==
    [id : {0}, timestamp : {Millis(1)},
     receive_timestamp : {0, Millis(1), Millis(2)},
     rtc_stats : {NoStats, get_rtc_stats("inbound"), get_rtc_stats("empty")},
     cpu_usage : {0, CpuBusy}]

\* the ledgers of up to MaxLedger entries, ids 1, 2, ...
SampleLedgers ==
    UNION {{[i \in 1..n |-> [l[i] EXCEPT !.id = i]] : l \in [1..n -> EntryShapes]} :
              n \in 0..MaxLedger}

\* measure_latency has returned some ledger, at some time
InitWriter ==
    /\ InitOther
    /\ latency_results \in SampleLedgers
    /\ now \in 1..MaxClock
    /\ rpc = "ended"
    /\ resolution = DefaultResolution

Next ==
    \/ SyntheticFrame
    \/ SessionEnd
    \/ WriteReport

Spec == Init /\ [][Next]_vars

\* end_to_end_latency runs on: once measure_latency has returned, nothing
\* keeps the statements that follow it from running
SpecLive == Spec /\ WF_vars(WriteReport)

NextEmitter ==
    \/ CapLock
    \/ CaptureError
    \/ CbConvert
    \/ CbCopy
    \/ CbLock
    \/ CbTest
    \/ CbMark
    \/ CbUnlock
    \/ CbDeliver
    \/ CapUnlock
    \/ HRecv
    \/ HLock
    \/ HSet
    \/ HUnlock
    \/ DataPublished
    \/ FrameLost

SpecEmitter == Init /\ [][NextEmitter]_vars

\* the steps of the capture thread, from capturer.lock() to the end of the arm
CaptureStep ==
    \/ CapLock \/ CaptureError \/ CbConvert \/ CbCopy \/ CbLock \/ CbTest \/ CbMark
    \/ CbUnlock \/ CbDeliver \/ CapUnlock

\* the steps of the room-event task once it has a "watermark" packet
HandlerStep == HLock \/ HSet \/ HUnlock

\* both threads keep running; a thread blocked in Mutex::lock() gets the
\* mutex when it is free again and again: the capture thread holds none for
\* the 16 ms of recv_timeout in every pass, the handler holds the budget's
\* for one assignment per packet
SpecEmitterLive ==
    /\ SpecEmitter
    /\ WF_vars(CaptureStep) /\ SF_vars(CbLock)
    /\ WF_vars(HandlerStep) /\ SF_vars(HLock)

NextSystem ==
    \/ DeliverFrame
    \/ EmitterFrame
    \/ EmitterTrigger
    \/ FrameLost

SpecSystem == Init /\ [][NextSystem]_vars

NextSharer ==
    \/ RecvTimeout
    \/ CaptureTick
    \/ StopCapture
    \/ SharerDropped
    \/ RecvStop
    \/ RecvDisconnected

SpecSharer == InitSharer /\ [][NextSharer]_vars

\* recv_timeout returns a message that is waiting
SpecSharerLive == SpecSharer /\ WF_vars(RecvStop) /\ WF_vars(CaptureTick)

\* the capture loop while data packets arrive
NextCadence ==
    \/ RecvTimeout
    \/ CaptureTick
    \/ DataPublished
    \/ EmitterTrigger

SpecCadence == Init /\ [][NextCadence]_vars

NextWriter == Reserialize

SpecWriter == InitWriter /\ [][NextWriter]_vars

----------------------------------------------------------------------------
\* Properties

\* index of the newest entry
Newest == Len(latency_results)

\* entry i was opened on a frame from which on detection is past the warm-up
AfterWarmUp(i) == hist[i].openedAt >= start_sampling_frame

\* ids of the rows of the report
ReportIds == {report.rows[j].id : j \in 1..Len(report.rows)}

\* C1 (Spec): when the WatermarkFrames frames right after a trigger sent past
\* the warm-up all carry the sentinel, the entry opened by that trigger is
\* matched exactly once, on the first of those frames and with the timestamp
\* read on it, and no older entry is matched by any of them.
C1_FirstMatchWins ==
    (run = WatermarkFrames /\ Newest > 0 /\ AfterWarmUp(Newest)) =>
        /\ latency_results[Newest].receive_timestamp = runFirstTs
        /\ runFirstTs /= 0
        /\ hist[Newest].matchedAt = hist[Newest].openedAt + 1
        /\ hist[Newest].matches = 1
        /\ \A i \in 1..(Newest - 1) : hist[i].matchedAt <= hist[Newest].openedAt

\* C1 witness: such a run is complete and the clock moved on during it
C1_Witness ==
    /\ run = WatermarkFrames
    /\ Newest > 0 /\ AfterWarmUp(Newest)
    /\ rpc = "running"
    /\ latency_results[Newest].receive_timestamp /= 0
    /\ Millis(now) > runFirstTs

\* C2 (Spec): in every step every entry stays in the ledger and a nonzero
\* receive_timestamp keeps its value, so the only change an entry's
\* receive_timestamp ever sees is the one from 0 to nonzero.
C2_ReceiveOnce ==
    [][\A i \in 1..Len(latency_results) :
          /\ Len(latency_results') >= i
          /\ latency_results[i].receive_timestamp /= 0 =>
                latency_results'[i].receive_timestamp
                    = latency_results[i].receive_timestamp]_vars

\* C2 witness: the newest entry was matched by the first frame of a run, a
\* later sentinel frame of the run arrived at a later clock reading
C2_Witness ==
    /\ run >= 2
    /\ Newest > 0 /\ AfterWarmUp(Newest)
    /\ latency_results[Newest].receive_timestamp = runFirstTs
    /\ lastDetect
    /\ Millis(now) > runFirstTs

\* C3 (SpecSystem), as claimed: every matched entry was matched by a frame the
\* Emitter marked under the budget that entry's own trigger set.
C3_OwnTrigger ==
    \A i \in 1..Len(hist) :
        hist[i].matchedAt >= 0 => hist[i].matchedBy = latency_results[i].id

\* C4 (Spec): an entry that is pending when a newer one is in the ledger stays
\* pending in every step, and no row of the report carries the id of a
\* pending entry.
C4_OnlyNewest ==
    /\ [][\A i \in 1..(Len(latency_results) - 1) :
             latency_results[i].receive_timestamp = 0 =>
                latency_results'[i].receive_timestamp = 0]_vars
    /\ [](rpc = "reported" =>
             \A i \in 1..Len(latency_results) :
                latency_results[i].receive_timestamp = 0 =>
                   latency_results[i].id \notin ReportIds)

\* C4 witness: past the warm-up an entry was superseded while pending, the
\* later one was matched, and the report is written
C4_Witness ==
    /\ rpc = "reported"
    /\ Newest >= 2
    /\ AfterWarmUp(Newest)
    /\ latency_results[Newest - 1].receive_timestamp = 0
    /\ latency_results[Newest].receive_timestamp /= 0
    /\ ReportIds = {latency_results[Newest].id}

\* the capture thread is between taking and releasing the budget's mutex
CbInside == cpc \in {"locked", "marking", "unlock"}

\* the room-event task is between taking and releasing the budget's mutex
HInside == hpc \in {"set", "unlock"}

\* C5 (SpecEmitter): the two critical sections exclude each other; the budget
\* never goes below 0; the decrement is applied to the value the budget holds,
\* not to a stale one; whenever the mutex is free after a reset, the frames
\* marked since that reset and the budget left add up to WatermarkFrames; and
\* a frame passes unmarked after a reset only once WatermarkFrames frames were
\* marked.
C5_AtomicBudget ==
    /\ ~(CbInside /\ HInside)
    /\ watermark_count >= 0
    /\ cpc = "marking" => cb_read = watermark_count
    /\ (armedBy /= 0 /\ count_lock = "free") =>
          watermark_count + markedSinceReset = WatermarkFrames
    /\ (armedBy /= 0 /\ passedSinceReset) =>
          markedSinceReset = WatermarkFrames

\* C5 witness: a trigger waits for the mutex while the callback is between
\* its test and its decrement, under a budget an earlier trigger set
C5_Witness ==
    /\ hpc = "lock"
    /\ cpc = "marking"
    /\ count_lock = "capture"
    /\ armedBy /= 0
    /\ cb_read = watermark_count

PlainPlane == Luma(0, Plain, FrameLen)

MarkedPlane == Luma(MarkRows * Stride, Plain, FrameLen)

\* C7 (SpecEmitter): once the callback has left its test, a frame tested
\* under a budget > 0 has exactly its first MarkRows rows overwritten with the
\* sentinel and the budget is one less than it was read; a frame tested under
\* budget 0 is as captured and the budget is still 0; and every frame handed
\* to the video source is one of the two.
C7_FrameProduced ==
    /\ cpc \in {"unlock", "deliver"} =>
          IF cb_read > 0
          THEN /\ cb_frame.y = MarkedPlane
               /\ cpc = "unlock" => watermark_count = cb_read - 1
          ELSE /\ cb_frame.y = PlainPlane
               /\ cb_frame.tag = 0
               /\ cpc = "unlock" => watermark_count = 0
    /\ \A j \in 1..Len(transport) :
          \/ transport[j].y = MarkedPlane /\ transport[j].tag /= 0
          \/ transport[j].y = PlainPlane /\ transport[j].tag = 0

\* C7 witness: the frame that used up the budget is about to be handed over
C7_Witness ==
    /\ cpc = "deliver"
    /\ cb_read = 1
    /\ watermark_count = 0
    /\ cb_frame.y = MarkedPlane
    /\ SentinelSamples(cb_frame.y) = SampleLen

\* ticks due among the first n frames: frames 0, frames_offset, ...
TicksWithin(n) == (n + frames_offset - 1) \div frames_offset

\* C8 (Spec): the ledger holds one entry per trigger sent and one per
\* frames_offset frames, whatever the state of the entries before; a step
\* that appends appends one entry, with receive_timestamp 0, no stats and
\* cpu_usage 0.
C8_TickCadence ==
    /\ [](/\ Len(latency_results) = triggersSent
          /\ Len(signal) = triggersSent
          /\ Len(latency_results) = TicksWithin(frames))
    /\ [][Len(latency_results') /= Len(latency_results) =>
             /\ Len(latency_results') = Len(latency_results) + 1
             /\ latency_results'[Len(latency_results')].receive_timestamp = 0
             /\ latency_results'[Len(latency_results')].rtc_stats = NoStats
             /\ latency_results'[Len(latency_results')].cpu_usage = 0]_vars

\* C8 witness: past the warm-up a tick was sent while the entry before it was
\* still pending
C8_Witness ==
    /\ Newest >= 2
    /\ AfterWarmUp(Newest)
    /\ latency_results[Newest - 1].receive_timestamp = 0
    /\ frames > hist[Newest].openedAt
    /\ rpc = "running"

\* C9 (Spec), as claimed: an entry's id is the frame counter at its tick
\* divided by frames_offset.
C9_IdIsCounterOverF ==
    \A i \in 1..Len(latency_results) :
        latency_results[i].id = hist[i].openedAt \div frames_offset

\* C9 (Spec), amended: an entry's id is one more than the frame counter at its
\* tick divided by frames_offset, so ids run 1, 2, 3, ...
C9_IdIsCounterOverFPlusOne ==
    \A i \in 1..Len(latency_results) :
        /\ latency_results[i].id = hist[i].openedAt \div frames_offset + 1
        /\ latency_results[i].id = i

\* C9 witness: the entry of the tick on frame 2 * frames_offset is open
C9_Witness ==
    /\ Newest >= 3
    /\ hist[Newest].openedAt = (Newest - 1) * frames_offset
    /\ latency_results[Newest].id = Newest

\* the entry that was newest when frame p was scanned, 0 if none
NewestBefore(p) == Cardinality({i \in 1..Len(hist) : hist[i].openedAt < p})

\* C10 (Spec), as claimed: a frame after the first start_sampling_frame frames
\* (frame counter >= start_sampling_frame) that holds the sentinel leaves the
\* entry that was newest when it arrived matched.
C10_ScannedAfterWarmUp ==
    (rpc /= "panicked" /\ lastDetect /\ frames - 1 >= start_sampling_frame
        /\ NewestBefore(frames - 1) > 0) =>
        latency_results[NewestBefore(frames - 1)].receive_timestamp /= 0

\* ids of the rows of the report, in the order written
RowIds == [j \in 1..Len(report.rows) |-> report.rows[j].id]

\* ids of the ledger, in ledger order
LedgerIds == [i \in 1..Len(latency_results) |-> latency_results[i].id]

\* indices of the ledger, in order
Indices == [i \in 1..Len(latency_results) |-> i]

\* the ids of the entries whose index satisfies P, in ledger order
IdsWhere(P(_)) ==
    LET sel == SelectSeq(Indices, P)
    IN  [k \in 1..Len(sel) |-> latency_results[sel[k]].id]

\* entry i was opened past the warm-up and the frame after its tick arrived
FirstMarkedSeen(i) == AfterWarmUp(i) /\ hist[i].openedAt + 1 < frames

\* inbound frames of the session of the claim: three trigger periods
C11_SessionFrames == 3 * frames_offset

\* C11 (Spec), as claimed: a session of 450 inbound frames in which exactly
\* the WatermarkFrames frames after each trigger carry the sentinel ends with
\* a report of three rows, ids 1, 2 and 3.
C11_ThreeRows ==
    (rpc = "reported" /\ wellMarked /\ frames = C11_SessionFrames) =>
        RowIds = <<1, 2, 3>>

\* C11 (Spec), amended: such a session ends with the ledger holding entries
\* 1, 2 and 3, all pending, and a report without rows; in any session marked
\* this way the rows of the report are the entries opened at frame counter
\* start_sampling_frame or later whose following frame arrived.
C11_RowsPastWarmUp ==
    (rpc = "reported" /\ wellMarked) =>
        /\ RowIds = IdsWhere(FirstMarkedSeen)
        /\ frames = C11_SessionFrames =>
              /\ LedgerIds = <<1, 2, 3>>
              /\ RowIds = <<>>
              /\ \A i \in 1..3 : latency_results[i].receive_timestamp = 0

\* C11 witness: the report of a session of 450 frames, each trigger followed
\* by WatermarkFrames marked frames, is written
C11_Witness ==
    /\ rpc = "reported"
    /\ wellMarked
    /\ frames = C11_SessionFrames
    /\ Len(latency_results) = 3
    /\ report.header

\* a longer session of that kind whose report has a row
C11_WitnessRow ==
    /\ rpc = "reported"
    /\ wellMarked
    /\ RowIds = <<5>>

\* entry i has a receive timestamp
IsMatched(i) == latency_results[i].receive_timestamp /= 0

\* C12 (Spec): the rows of a written report are the entries with a nonzero
\* receive_timestamp, one row each, in ledger order; at the end of the frame
\* loop every such entry has its stats, so the second test of the writer's
\* filter drops none of them.
C12_RowsAreMatched ==
    /\ rpc = "reported" =>
          /\ RowIds = IdsWhere(IsMatched)
          /\ Len(report.rows) = Cardinality({i \in 1..Len(latency_results) : IsMatched(i)})
    /\ rpc \in {"ended", "reported", "write_error"} =>
          \A i \in 1..Len(latency_results) :
             IsMatched(i) <=> Reported(latency_results[i])

\* C12 witness: a report of two rows from a ledger whose first three entries
\* are pending
C12_Witness ==
    /\ rpc = "reported"
    /\ Len(latency_results) = 5
    /\ RowIds = <<4, 5>>
    /\ \A i \in 1..3 : ~IsMatched(i)

\* C13 (Spec): a matched entry's receive_timestamp is not before its
\* timestamp, and every row of the report carries as latency the difference
\* of the two, which is >= 0.
C13_LatencyNonNegative ==
    /\ \A i \in 1..Len(latency_results) :
          IsMatched(i) =>
             latency_results[i].receive_timestamp >= latency_results[i].timestamp
    /\ rpc = "reported" =>
          \A j \in 1..Len(report.rows) :
             /\ report.rows[j].latency >= 0
             /\ \E i \in 1..Len(latency_results) :
                   /\ latency_results[i].id = report.rows[j].id
                   /\ report.rows[j].latency =
                         latency_results[i].receive_timestamp
                            - latency_results[i].timestamp

\* C13 witness: a report with a row of latency 0 and a row whose latency is
\* one second
C13_Witness ==
    /\ rpc = "reported"
    /\ Len(report.rows) = 2
    /\ report.rows[1].latency = 0
    /\ report.rows[2].latency = Millis(1)

\* the writer has run
Written == rpc \in {"reported", "write_error"}

\* C14 (SpecLive): the end of the stream, or 10 s without a frame, takes the
\* Receiver out of the frame loop with its ledger as it was and nothing
\* written; once out of the loop the writer runs; the file is written to only
\* by a step taken after the loop has exited, at most once, and a session
\* whose writer has run stays as it is.
C14_ReportAfterLoop ==
    /\ [](report.created => Written)
    /\ [][(rpc = "running" /\ rpc' = "ended") =>
             UNCHANGED <<frames, latency_results, report>>]_vars
    /\ [][report' /= report => (rpc = "ended" /\ ~report.created)]_vars
    /\ [][Written => UNCHANGED <<rpc, report, latency_results, frames>>]_vars
    /\ (rpc = "ended") ~> Written

\* C14 witness: the stream ended before the last frame the model allows, and
\* the report, with one row, is written
C14_Witness ==
    /\ rpc = "reported"
    /\ frames < MaxFrames
    /\ report.header
    /\ Len(report.rows) = 1

\* a tick whose publish_data returned Err: next_frame_request is advanced and
\* no entry was pushed for it
PublishRefused == next_frame_request \div frames_offset > Len(latency_results)

\* C15 (Spec), as claimed: when the signaling channel is closed and the
\* trigger cannot be sent, the session ends normally: the Receiver leaves the
\* frame loop and goes on to the writer.
C15_TransportEndedNormal ==
    PublishRefused => rpc \in {"ended", "reported", "write_error"}

\* a match whose stats query returned Err: the entry has its receive
\* timestamp and no stats
StatsRefused ==
    \E i \in 1..Len(latency_results) :
        IsMatched(i) /\ ~latency_results[i].rtc_stats.some

\* C16 (Spec), as claimed: after a stats query failed at match time the
\* entry keeps its receive timestamp and the session goes on, to more frames
\* or to the report.
C16_StatsFailureRecoverable ==
    StatsRefused => rpc \in {"running", "ended", "reported", "write_error"}

\* entry i was matched in a pass whose process lookup gave None
NoProcessAt(i) ==
    /\ IsMatched(i)
    /\ latency_results[i].rtc_stats.some
    /\ latency_results[i].cpu_usage = 0

\* C17 (Spec): a pass that logs the process warning leaves the newest entry
\* matched, with its receive timestamp and stats set and cpu_usage 0, and the
\* Receiver in the frame loop (unless the tick of that same pass cannot be
\* published); there is one warning per such entry; and every such entry has
\* its row, with cpu_usage 0, in the report.
C17_ProcessLookupNonFatal ==
    /\ [][warnings' /= warnings =>
             /\ warnings' = warnings + 1
             /\ Len(latency_results) > 0
             /\ ~IsMatched(Len(latency_results))
             /\ latency_results'[Len(latency_results)].receive_timestamp /= 0
             /\ latency_results'[Len(latency_results)].rtc_stats.some
             /\ latency_results'[Len(latency_results)].cpu_usage = 0
             /\ rpc' = "running" \/ PublishRefused']_vars
    /\ [](warnings = Cardinality({i \in 1..Len(latency_results) : NoProcessAt(i)}))
    /\ [](rpc = "reported" =>
             \A i \in 1..Len(latency_results) :
                NoProcessAt(i) =>
                   \E j \in 1..Len(report.rows) :
                      /\ report.rows[j].id = latency_results[i].id
                      /\ report.rows[j].cpu_usage = 0)

\* C17 witness: entry 4 was matched without the process, the session went on
\* to the next tick and entry 5 was matched with it; both are in the report
C17_Witness ==
    /\ rpc = "reported"
    /\ warnings = 1
    /\ Len(latency_results) = 5
    /\ NoProcessAt(4)
    /\ latency_results[5].cpu_usage = CpuBusy
    /\ Len(report.rows) = 2
    /\ report.rows[1].cpu_usage = 0

\* the Receiver's writer failed and end_to_end_latency returned Err
ReceiverWriteFailureReturned == (Written /\ ~report.header) => rpc = "write_error"

\* the stats file could not be created or written
StatsFileFailed == spc = "stopped" /\ ~stats_file.header

\* C18 (SpecSharer), as claimed: a report that cannot be created or written
\* makes the operation that writes it return an error to its caller, for the
\* Receiver's report and for the Emitter's stats file.
C18_WriteFailurePropagated ==
    /\ ReceiverWriteFailureReturned
    /\ (StatsFileFailed /\ stop_result /= "none") => stop_result = "err"

\* C19 (Spec): a step leaves the ledger's length as it is or appends one
\* entry at the end; every entry stays at its index with its id and its
\* timestamp; ids go up by 1 and timestamps do not go down along the ledger.
C19_AppendOnly ==
    /\ [][/\ Len(latency_results') \in {Len(latency_results), Len(latency_results) + 1}
          /\ \A i \in 1..Len(latency_results) :
                /\ latency_results'[i].id = latency_results[i].id
                /\ latency_results'[i].timestamp = latency_results[i].timestamp]_vars
    /\ [](\A i \in 1..(Len(latency_results) - 1) :
             /\ latency_results[i + 1].id = latency_results[i].id + 1
             /\ latency_results[i + 1].timestamp >= latency_results[i].timestamp)

\* C19 witness: five entries, the clock moved on between the first and the
\* last tick, and an entry in between was matched
C19_Witness ==
    /\ Len(latency_results) = 5
    /\ latency_results[5].timestamp > latency_results[1].timestamp
    /\ IsMatched(4)
    /\ rpc = "running"

\* C20 (Spec): in every step each entry keeps its id and its timestamp and
\* every entry but the last stays as it is; and a pass in the warm-up, or on
\* a frame with fewer than min_watermark_count sentinel samples, or with the
\* newest entry already matched, leaves every entry as it is.
C20_MutatedOnlyByMatch ==
    [][/\ \A i \in 1..Len(latency_results) :
             /\ Len(latency_results') >= i
             /\ latency_results'[i].id = latency_results[i].id
             /\ latency_results'[i].timestamp = latency_results[i].timestamp
       /\ \A i \in 1..(Len(latency_results) - 1) :
             latency_results'[i] = latency_results[i]
       /\ (\/ frames <= start_sampling_frame
           \/ ~lastDetect'
           \/ Len(latency_results) = 0
           \/ IsMatched(Len(latency_results))) =>
             \A i \in 1..Len(latency_results) :
                latency_results'[i] = latency_results[i]]_vars

\* C20 witness: entry 5 was matched with stats and CPU usage, a later frame
\* with the sentinel followed, and the older entry 3 is still as created
C20_Witness ==
    /\ Len(latency_results) = 5
    /\ IsMatched(5)
    /\ latency_results[5].cpu_usage = CpuBusy
    /\ latency_results[3] = [latency_results[3] EXCEPT !.receive_timestamp = 0,
                                                        !.rtc_stats = NoStats,
                                                        !.cpu_usage = 0]
    /\ lastDetect
    /\ hist[5].matchedAt < frames - 1
    /\ rpc = "running"

\* C21 (SpecWriter): a call of the writer that returns Ok leaves the file
\* holding the header and the rows of the ledger under the duration,
\* whatever the file held before, so a second such call leaves the file as
\* the first left it; and the writer leaves the ledger as it is.
C21_Idempotent ==
    /\ [][(rpc = "reported" /\ rpc' = "reported") => report' = report]_vars
    /\ [][latency_results' = latency_results]_vars
    /\ [](rpc = "reported" =>
             report = [created |-> TRUE, header |-> TRUE,
                       rows |-> Rows(latency_results, now - session_start)])

\* C21 witness: a ledger of a matched and a pending entry was written twice
C21_Witness ==
    /\ writes = 2
    /\ rpc = "reported"
    /\ Len(latency_results) = 2
    /\ Len(report.rows) = 1
    /\ report.rows[1].id = 2

\* Passes of the Timeout arm that ran to their end: the pass on which the
\* thread panicked in get_stats counted its frame (line 257) but never ended
CompletedTicks == cap_frames - (IF spc = "panicked" THEN 1 ELSE 0)

\* C22 (SpecCadence): after n completed passes of the capture loop the thread
\* has recorded n \div StatsEvery samples, whatever data packets arrived and
\* whatever the budget is; a pass that records a sample records one, and the
\* budget after it is what the callback of that pass left: as it was, or one
\* less when it was > 0; the sample itself changes neither the budget nor the
\* trigger that armed it.
C22_StatsCadence ==
    /\ [](Len(stats) = CompletedTicks \div StatsEvery)
    /\ [][Len(stats') /= Len(stats) =>
             /\ Len(stats') = Len(stats) + 1
             /\ StatsDue(cap_frames')
             /\ watermark_count' \in {watermark_count, watermark_count - 1}
             /\ watermark_count' >= 0
             /\ armedBy' = armedBy]_vars

\* C22 witness: the first sample was taken on a pass whose frame was marked,
\* in the middle of a watermark cycle, and the second with the budget at 0
C22_Witness ==
    /\ cap_frames = 2 * StatsEvery
    /\ Len(stats) = 2
    /\ armedBy /= 0
    /\ markedSinceReset \in 1..(WatermarkFrames - 1)
    /\ watermark_count = WatermarkFrames - markedSinceReset
    /\ cb_frame.tag = armedBy
    /\ spc = "capturing"

\* the name main's arguments give the stats file
ArtifactName ==
    FileName(DefaultCodec, ResolutionLabel(dimensions(resolution)[2]), DefaultBitrate,
             DefaultName)

\* what holds of the stop whatever the thread is doing: the file, when it is
\* created, is created by the pass that receives Stop and bears the name made
\* of the four fields of the message; after that pass the thread counts no
\* frame, takes no sample and touches the file no more; one Stop message at
\* most is ever sent, and none once the sender has been taken
StopSafety ==
    /\ [](stats_file /= NoFile => spc = "stopped" /\ stats_file.name = ArtifactName)
    /\ [][spc = "stopped" => UNCHANGED <<spc, cap_frames, stats, stats_file>>]_vars
    /\ [](Len(rx) + (IF spc = "stopped" THEN 1 ELSE 0) <= 1)
    /\ [][tx /= "some" => Len(rx') <= Len(rx)]_vars

\* a Stop message in the channel is received by the capture loop
StopReceived == (rx /= <<>>) ~> (spc = "stopped")

\* C23 (SpecSharerLive), as claimed: once stop_capture has sent Stop the loop
\* receives it, writes the file named of the message's four fields once and
\* exits; no frame is captured after Stop is received; a second stop_capture
\* sends nothing.
C23_StopCompletes == StopSafety /\ StopReceived

\* entry i has its stats snapshot
HasStats(i) == latency_results[i].rtc_stats.some

C25_DetectionBeforeTrigger ==
    /\ [][Len(latency_results') = Len(latency_results) + 1 =>
             /\ latency_results'[Len(latency_results')].receive_timestamp = 0
             /\ ~latency_results'[Len(latency_results')].rtc_stats.some
             /\ hist'[Len(hist')].openedAt = frames
             /\ \A i \in 1..Len(latency_results) :
                    latency_results'[i] /= latency_results[i] =>
                       /\ i = Len(latency_results)
                       /\ hist'[i].matchedAt = frames
                       /\ hist[i].openedAt = frames - frames_offset]_vars
    /\ [](\A i \in 1..Len(latency_results) :
             /\ IsMatched(i) <=> hist[i].matchedAt >= 0
             /\ IsMatched(i) => hist[i].matchedAt > hist[i].openedAt)

\* C25 witness: frame 600 carried the sentinel and a trigger was due on it:
\* it closed entry 4, opened on frame 450, and opened entry 5, still pending
C25_Witness ==
    /\ Len(latency_results) = 5
    /\ hist[4].openedAt = 450 /\ hist[4].matchedAt = 600
    /\ hist[5].openedAt = 600 /\ hist[5].matchedAt = -1
    /\ IsMatched(4) /\ ~IsMatched(5)
    /\ frames = 601

\* the mutexes each thread holds at each position: the capture thread takes
\* capturer, tmp_buffer, video_frame and the budget's in that order and gives
\* them back innermost first; the handler holds the budget's only
LockNesting ==
    /\ mutexes.capturer = "capture" <=> cpc /= "idle"
    /\ mutexes.tmp_buffer = "capture" <=>
          cpc \in {"converted", "copied", "locked", "marking", "unlock", "deliver"}
    /\ mutexes.video_frame = "capture" <=>
          cpc \in {"copied", "locked", "marking", "unlock", "deliver"}
    /\ count_lock = "capture" <=> cpc \in {"locked", "marking", "unlock"}
    /\ count_lock = "handler" <=> hpc \in {"set", "unlock"}
    /\ \A m \in DOMAIN mutexes : mutexes[m] \in {"free", "capture"}

\* C26 (SpecEmitterLive): the locks are nested as the claim says; in every
\* state the capture thread can step, or it waits for the budget's mutex and
\* the handler, which holds it, can step; and a handler that is to reset
\* the budget completes the reset and a capture pass that has called the
\* capturer reaches the end of the arm.
C26_NoDeadlock ==
    /\ []LockNesting
    /\ []((ENABLED CaptureStep) \/ (cpc = "copied" /\ ENABLED HandlerStep))
    /\ (hpc = "lock") ~> (hpc = "recv" /\ count_lock /= "handler")
    /\ (cpc = "called") ~> (cpc = "idle" /\ mutexes = AllFree)

\* C26 witness: the handler waits for the budget's mutex while the capture
\* thread holds all four, marking a frame for an earlier trigger
C26_Witness ==
    /\ hpc = "lock"
    /\ cpc = "marking"
    /\ count_lock = "capture"
    /\ \A m \in DOMAIN mutexes : mutexes[m] = "capture"
    /\ armedBy /= 0 /\ h_trig > armedBy

\* the accepted resolutions whose name is `label`
Named(label) == {r \in Resolutions : ResolutionName(r) = label}

\* C27 (SpecSharer), as claimed: the label in a Stop message and in the name
\* of the stats file is the name of the configured resolution and of no
\* other, so that runs at two resolutions never bear the same label.
C27_LabelNamesResolution ==
    /\ \A i \in 1..Len(rx) : Named(rx[i].resolution) = {resolution}
    /\ stats_file.name /= "" =>
          stats_file.name = FileName(DefaultCodec, ResolutionName(resolution),
                                     DefaultBitrate, DefaultName)

====
